---- MODULE Spec2Model ----
(***************************************************************************)
(* Model of the schema migration engine of the Recipes application:        *)
(*   backend/manage_migrations.py  integer-versioned runner (V<n>_*.sql)    *)
(*   db/manage_migrations.py       tag-based runner (migrate_A_to_B.sql)   *)
(*                                                                         *)
(* The database is the MySQL server named by DATABASE_URL.  A connection   *)
(* opened by engine.connect() starts a transaction at its first statement, *)
(* makes it durable at conn.commit() and rolls it back when the block is   *)
(* left by an exception.  A DDL statement (CREATE/ALTER/DROP TABLE) makes   *)
(* MySQL commit the open transaction implicitly; a DML statement does not. *)
(***************************************************************************)
EXTENDS Integers, Sequences, FiniteSets, TLC

VARIABLES
    disk,      \* integer runner: version -> change-set file in MIGRATIONS_DIR
    store,     \* integer runner: rows of schema_version, in insertion order
    schema,    \* committed effects of change-set SQL: <<version, statement>>
    pc,        \* position of the running command: "idle", "upgrade", "downgrade";
               \* "split" / "backend_split" once the tag / integer runner
               \* has cut sql_text into statements
    queue,     \* change-sets the running loop has still to process
    result,    \* outcome of the most recent command
    log,       \* database calls made by the most recent command
    pre,       \* store, schema and current version when that command started
    prev,      \* outcome and starting state of the command before it
    tdisk,     \* tag runner: the migrate_<from>_to_<to>.sql files
    tstore,    \* tag runner: rows of migration_version, in insertion order
    tschema,   \* tag runner: committed effects of migration SQL
    tstamp,    \* tag runner: applied_at of each row of tstore, as its rank
    out,       \* the list of change-sets the most recent command printed
    sql_text,  \* splitter: the text handed to split_sql_statements
    statements, \* splitter: the list it returned
    from_tables, \* generator: tables of db.sql at --from-tag, in file order
    to_tables,   \* generator: tables of db.sql at --to-tag, in file order
    upgrade_statements,   \* generator: first list returned by generate_diff
    downgrade_statements, \* generator: second list returned by generate_diff
    content,     \* generator: text of the migration file it wrote
    runs,        \* concurrent upgrades: position, loop and open transaction
                 \* of each invocation
    committed_by \* concurrent upgrades: <<run, version, statement>> for every
                 \* upgrade statement a run made durable

ivars == <<disk, store, schema, pc, queue, result, log, pre, prev>>
tvars == <<tdisk, tstore, tschema, tstamp>>
textvars == <<sql_text, statements>>
gvars == <<from_tables, to_tables, upgrade_statements, downgrade_statements,
           content>>
cvars == <<runs, committed_by>>
vars  == <<disk, store, schema, pc, queue, result, log, pre, prev,
           tdisk, tstore, tschema, tstamp, out, sql_text, statements,
           from_tables, to_tables, upgrade_statements, downgrade_statements,
           content, runs, committed_by>>

(***************************************************************************)
(* Bounds                                                                  *)
(***************************************************************************)
\* highest change-set version a file on disk may carry
MaxVersion == 3

(***************************************************************************)
(* Program constants                                                       *)
(***************************************************************************)
\* get_current_version: "return row[0] if row else 0"
UNVERSIONED == 0
\* cmd_init: "VALUES (1, 'Initial schema')"; cmd_downgrade: "current <= 1"
BASE_VERSION == 1

Versions == 1..MaxVersion

(***************************************************************************)
(* Sequences helpers                                                       *)
(***************************************************************************)
Range(s) == {s[i] : i \in DOMAIN s}

RECURSIVE SeqMax(_)
SeqMax(s) ==
    IF s = <<>> THEN UNVERSIONED
    ELSE LET m == SeqMax(Tail(s)) IN IF Head(s) > m THEN Head(s) ELSE m

SelectNot(s, v) == SelectSeq(s, LAMBDA x : x # v)

Reverse(s) == [i \in 1..Len(s) |-> s[Len(s) + 1 - i]]

\* os.listdir yields the directory entries in arbitrary order: the orders
\* taken here are the ascending and the descending one
RECURSIVE Ascending(_)
Ascending(S) ==
    IF S = {} THEN <<>>
    ELSE LET m == CHOOSE x \in S : \A y \in S : x <= y
         IN  <<m>> \o Ascending(S \ {m})

Listings(S) == {Ascending(S), Reverse(Ascending(S))}

(***************************************************************************)
(* Change-set files.  A body is the list of statements that the runner     *)
(* obtains from it; the empty list is the empty (blank) body.  A statement *)
(* is "DML" (transactional), "DDL" (implicit commit) or "BAD" (the server  *)
(* rejects it).                                                            *)
(***************************************************************************)
File(um, dm, up, down) ==
    [upMarker |-> um, downMarker |-> dm, up |-> up, down |-> down]

GoodFile     == File(TRUE, TRUE, <<"DDL", "DML">>, <<"DML", "DDL">>)
BadUpFile    == File(TRUE, TRUE, <<"DDL", "BAD">>, <<"DDL">>)
BadDownFile  == File(TRUE, TRUE, <<"DML", "DML">>, <<"DML", "BAD">>)
EmptyDownFile == File(TRUE, TRUE, <<"DML">>, <<>>)
NoDownMarkerFile == File(TRUE, FALSE, <<"DML">>, <<>>)
NoUpMarkerFile == File(FALSE, TRUE, <<>>, <<"DML">>)

\* the integer runner treats a file without the UPGRADE marker exactly as one
\* without the DOWNGRADE marker, so one of the two is on its disks
FileKinds == {GoodFile, BadUpFile, BadDownFile, EmptyDownFile, NoDownMarkerFile}

Disks == UNION {[S -> FileKinds] : S \in SUBSET Versions}

(***************************************************************************)
(* Version Store of the integer runner                                     *)
(***************************************************************************)
\* SELECT version FROM schema_version ORDER BY version DESC LIMIT 1
get_current_version(rows) == SeqMax(rows)

(***************************************************************************)
(* Migration Repository of the integer runner                              *)
(***************************************************************************)
RECURSIVE InsertSorted(_, _)
InsertSorted(v, s) ==
    IF s = <<>> THEN <<v>>
    ELSE IF v < Head(s) THEN <<v>> \o s
    ELSE <<Head(s)>> \o InsertSorted(v, Tail(s))

RECURSIVE SortByVersion(_)
SortByVersion(l) ==
    IF l = <<>> THEN <<>>
    ELSE InsertSorted(l[Len(l)], SortByVersion(SubSeq(l, 1, Len(l) - 1)))

\* mutant: the listing is returned as os.listdir yields it
get_migration_files_unsorted(listing) == listing

\* the migrations of a directory listing, as the list of their versions
get_migration_files(listing) == SortByVersion(listing)

None == [none |-> TRUE, stmts |-> <<>>]
Sql(stmts) == [none |-> FALSE, stmts |-> stmts]
\* Python's "not x" for x a string or None
Falsy(x) == x.none \/ x.stmts = <<>>

parse_migration_file(f) ==
    IF ~f.upMarker \/ ~f.downMarker
    THEN [upgrade_sql |-> None, downgrade_sql |-> None]
    ELSE [upgrade_sql |-> Sql(f.up), downgrade_sql |-> Sql(f.down)]

(***************************************************************************)
(* apply_migration of the integer runner                                   *)
(***************************************************************************)
Call(op, v, n) == [op |-> op, version |-> v, n |-> n]

\* index of the first statement the server rejects; Len + 1 when none is
FirstBad(stmts) ==
    IF \E i \in DOMAIN stmts : stmts[i] = "BAD"
    THEN CHOOSE i \in DOMAIN stmts :
            stmts[i] = "BAD" /\ \A j \in 1..(i - 1) : stmts[j] # "BAD"
    ELSE Len(stmts) + 1

\* how many of the statements before statement k are durable although the
\* transaction is rolled back: those up to the last DDL statement among them
ImplicitlyCommitted(stmts, k) ==
    LET D == {i \in 1..(k - 1) : stmts[i] = "DDL"}
    IN  IF D = {} THEN 0 ELSE CHOOSE i \in D : \A j \in D : j <= i

\* the schema once statements 1..n of a body have taken effect: upgrade
\* statement j makes <<v, j>> hold, the downgrade body undoes the upgrade
\* statements in reverse order
Effect(sch, v, direction, stmts, n) ==
    IF direction = "upgrade"
    THEN sch \cup {<<v, j>> : j \in 1..n}
    ELSE sch \ {<<v, Len(stmts) + 1 - j>> : j \in 1..n}

Executes(v, n) == [j \in 1..n |-> Call("execute", v, j)]

\* the except branch: the connection is closed without commit
RolledBack(rows, sch, v, direction, stmts, k, calls) ==
    [ok |-> FALSE, store |-> rows,
     schema |-> Effect(sch, v, direction, stmts, ImplicitlyCommitted(stmts, k)),
     calls |-> calls]

\* mutant: only the upgrade body is required
InvalidFileUpgradeOnly(p) == Falsy(p.upgrade_sql)

\* "if not upgrade_sql or not downgrade_sql"
InvalidFile(p) == Falsy(p.upgrade_sql) \/ Falsy(p.downgrade_sql)

\* the try block: the statements, the tracking write and the commit
transaction(rows, sch, v, direction, stmts) ==
    LET k == FirstBad(stmts) IN
    IF k <= Len(stmts)
    THEN \* conn.execute(text(statement)) raises at statement k
         RolledBack(rows, sch, v, direction, stmts, k, Executes(v, k))
    ELSE IF direction = "upgrade" /\ v \in Range(rows)
    THEN \* INSERT raises: version is the primary key
         RolledBack(rows, sch, v, direction, stmts, k,
                    Append(Executes(v, Len(stmts)), Call("insert", v, 0)))
    ELSE [ok |-> TRUE,
          store |-> IF direction = "upgrade" THEN Append(rows, v)
                    ELSE SelectNot(rows, v),
          schema |-> Effect(sch, v, direction, stmts, Len(stmts)),
          calls |-> Executes(v, Len(stmts)) \o
                    <<Call(IF direction = "upgrade" THEN "insert" ELSE "delete", v, 0),
                      Call("commit", v, 0)>>]

Rejected(rows, sch) == [ok |-> FALSE, store |-> rows, schema |-> sch, calls |-> <<>>]

apply_migration(rows, sch, v, f, direction) ==
    LET p == parse_migration_file(f) IN
    IF InvalidFile(p)
    THEN Rejected(rows, sch)
    ELSE transaction(rows, sch, v, direction,
                     IF direction = "upgrade" THEN p.upgrade_sql.stmts
                     ELSE p.downgrade_sql.stmts)

(***************************************************************************)
(* Commands of the integer runner                                          *)
(***************************************************************************)
NoArg == [kind |-> "none", n |-> 0]
\* values of --target: absent, not matching ^V?(\d+)$, or a number
TargetArgs == {NoArg, [kind |-> "bad", n |-> 0]} \cup
              {[kind |-> "num", n |-> k] : k \in 0..(MaxVersion + 1)}

Result(cmd, status, exit, arg) ==
    [cmd |-> cmd, status |-> status, exit |-> exit, arg |-> arg]

\* bookkeeping common to every command: remember how the command before
\* ended and in which state this one starts
Begin ==
    /\ pc = "idle"
    /\ prev' = [cmd |-> result.cmd, status |-> result.status, exit |-> result.exit,
                store |-> pre.store, current |-> pre.current]
    /\ pre' = [store |-> store, schema |-> schema,
               current |-> get_current_version(store)]

\* mutant: the current version counts as pending
PendingFromCurrent(migrations, current) ==
    SelectSeq(migrations, LAMBDA m : m >= current)

\* "pending = [m for m in migrations if m['version'] > current]"
Pending(migrations, current) == SelectSeq(migrations, LAMBDA m : m > current)

\* mutant: the rollback list is not reversed
ToRollbackAscending(migrations, target, current) ==
    SelectSeq(migrations, LAMBDA m : target < m /\ m <= current)

\* mutant: the target version itself is rolled back too
ToRollbackInclusive(migrations, target, current) ==
    Reverse(SelectSeq(migrations, LAMBDA m : target <= m /\ m <= current))

\* "[m for m in migrations if target_version < m['version'] <= current]",
\* then reverse()
ToRollback(migrations, target, current) ==
    Reverse(SelectSeq(migrations, LAMBDA m : target < m /\ m <= current))

\* mutant: a target equal to the current version is let through
TargetNotLessStrict(target, current) == target > current

\* "if target_version >= current"
TargetNotLess(target, current) == target >= current

\* "if current <= 1"
AtBase(current) == current <= BASE_VERSION

\* mutant: a failing change-set is tried again
AfterStepRetries(q, ok) == IF ok THEN Tail(q) ELSE q

\* mutant: a failing change-set is skipped and the loop goes on
AfterStepSkipsFailure(q, ok) == Tail(q)

\* what is left of a loop after one iteration: sys.exit(1) abandons the rest
AfterStep(q, ok) == IF ok THEN Tail(q) ELSE <<>>

cmd_init ==
    /\ Begin
    /\ LET current == get_current_version(store) IN
       IF current > 0
       THEN /\ result' = Result("init", "already_initialized", 0, NoArg)
            /\ log' = <<>>
            /\ UNCHANGED store
       ELSE /\ store' = Append(store, BASE_VERSION)
            /\ log' = <<Call("insert", BASE_VERSION, 0), Call("commit", BASE_VERSION, 0)>>
            /\ result' = Result("init", "initialized", 0, NoArg)
    /\ out' = <<>>
    /\ UNCHANGED <<disk, schema, pc, queue>>
    /\ UNCHANGED <<tvars, textvars, gvars, cvars>>

\* mutant: check records the pending change-sets as applied
cmd_check_recording ==
    /\ Begin
    /\ \E listing \in Listings(DOMAIN disk) :
         LET current == get_current_version(store)
             pending == Pending(get_migration_files(listing), current)
         IN  /\ result' = Result("check",
                                 IF pending = <<>> THEN "up_to_date" ELSE "pending",
                                 0, NoArg)
             /\ out' = pending
             /\ store' = store \o pending
    /\ log' = <<>>
    /\ UNCHANGED <<disk, schema, pc, queue>>
    /\ UNCHANGED <<tvars, textvars, gvars, cvars>>

cmd_check ==
    /\ Begin
    /\ \E listing \in Listings(DOMAIN disk) :
         LET current == get_current_version(store)
             pending == Pending(get_migration_files(listing), current)
         IN  /\ result' = Result("check",
                                 IF pending = <<>> THEN "up_to_date" ELSE "pending",
                                 0, NoArg)
             /\ out' = pending
    /\ log' = <<>>
    /\ UNCHANGED <<disk, store, schema, pc, queue>>
    /\ UNCHANGED <<tvars, textvars, gvars, cvars>>

\* cmd_upgrade up to the loop
cmd_upgrade ==
    /\ Begin
    /\ \E listing \in Listings(DOMAIN disk) :
         LET current == get_current_version(store)
             pending == Pending(get_migration_files(listing), current)
         IN  IF pending = <<>>
             THEN /\ result' = Result("upgrade", "up_to_date", 0, NoArg)
                  /\ UNCHANGED <<pc, queue>>
             ELSE /\ result' = Result("upgrade", "running", 0, NoArg)
                  /\ pc' = "upgrade"
                  /\ queue' = pending
    /\ log' = <<>>
    /\ out' = <<>>
    /\ UNCHANGED <<disk, store, schema>>
    /\ UNCHANGED <<tvars, textvars, gvars, cvars>>

\* one iteration of "for migration in pending"
upgrade_step ==
    /\ pc = "upgrade"
    /\ LET v == Head(queue)
           r == apply_migration(store, schema, v, disk[v], "upgrade")
       IN  /\ store' = r.store
           /\ schema' = r.schema
           /\ log' = log \o r.calls
           /\ queue' = AfterStep(queue, r.ok)
           /\ IF AfterStep(queue, r.ok) = <<>>
              THEN /\ pc' = "idle"
                   /\ result' = IF r.ok
                                THEN Result("upgrade", "applied", 0, NoArg)
                                ELSE Result("upgrade", "failed", 1, NoArg)
              ELSE UNCHANGED <<result, pc>>
    /\ UNCHANGED <<disk, pre, prev, out>>
    /\ UNCHANGED <<tvars, textvars, gvars, cvars>>

\* cmd_downgrade up to the loop
cmd_downgrade ==
    /\ Begin
    /\ \E t \in TargetArgs :
         LET current == get_current_version(store) IN
         IF AtBase(current)
         THEN /\ result' = Result("downgrade", "at_base", 0, t)
              /\ UNCHANGED <<pc, queue>>
         ELSE IF t.kind = "bad"
         THEN /\ result' = Result("downgrade", "invalid_target", 0, t)
              /\ UNCHANGED <<pc, queue>>
         ELSE IF t.kind = "num" /\ TargetNotLess(t.n, current)
         THEN /\ result' = Result("downgrade", "target_not_less", 0, t)
              /\ UNCHANGED <<pc, queue>>
         ELSE \E listing \in Listings(DOMAIN disk) :
              LET target_version == IF t.kind = "num" THEN t.n ELSE current - 1
                  migrations_to_rollback ==
                      ToRollback(get_migration_files(listing), target_version, current)
              IN  IF migrations_to_rollback = <<>>
                  THEN /\ result' = Result("downgrade", "rolled_back", 0, t)
                       /\ UNCHANGED <<pc, queue>>
                  ELSE /\ result' = Result("downgrade", "running", 0, t)
                       /\ pc' = "downgrade"
                       /\ queue' = migrations_to_rollback
    /\ log' = <<>>
    /\ out' = <<>>
    /\ UNCHANGED <<disk, store, schema>>
    /\ UNCHANGED <<tvars, textvars, gvars, cvars>>

\* one iteration of "for migration in migrations_to_rollback"
downgrade_step ==
    /\ pc = "downgrade"
    /\ LET v == Head(queue)
           r == apply_migration(store, schema, v, disk[v], "downgrade")
       IN  /\ store' = r.store
           /\ schema' = r.schema
           /\ log' = log \o r.calls
           /\ queue' = AfterStep(queue, r.ok)
           /\ IF AfterStep(queue, r.ok) = <<>>
              THEN /\ pc' = "idle"
                   /\ result' = IF r.ok
                                THEN Result("downgrade", "rolled_back", 0, result.arg)
                                ELSE Result("downgrade", "failed", 1, result.arg)
              ELSE UNCHANGED <<result, pc>>
    /\ UNCHANGED <<disk, pre, prev, out>>
    /\ UNCHANGED <<tvars, textvars, gvars, cvars>>

(***************************************************************************)
(* force-version of the integer runner                                     *)
(***************************************************************************)
\* values of the version argument: the empty string, a string not matching
\* ^V?(\d+)$, or a number
ForceArgs == {[kind |-> "empty", n |-> 0], [kind |-> "bad", n |-> 0]} \cup
             {[kind |-> "num", n |-> k] : k \in 0..(MaxVersion + 1)}

\* what the operator types at "Are you sure? (yes/no): "
Answers == {"yes", "YES", "no"}

\* str.lower on the answers above
Lower(response) == IF response = "YES" THEN "yes" ELSE response

ForceArg(a, response) == [kind |-> a.kind, n |-> a.n, answer |-> response]

\* mutant: the new row is added without clearing the table
ForcedKeepingRows(rows, version) == Append(rows, version)

\* "DELETE FROM schema_version", then the INSERT of the forced version
Forced(rows, version) == <<version>>

cmd_force_version ==
    /\ Begin
    /\ \E a \in ForceArgs :
         IF a.kind = "empty"
         THEN /\ result' = Result("force-version", "version_required", 0,
                                  ForceArg(a, "unasked"))
              /\ log' = <<>>
              /\ UNCHANGED store
         ELSE IF a.kind = "bad"
         THEN /\ result' = Result("force-version", "invalid_format", 0,
                                  ForceArg(a, "unasked"))
              /\ log' = <<>>
              /\ UNCHANGED store
         ELSE \E response \in Answers :
              IF Lower(response) # "yes"
              THEN /\ result' = Result("force-version", "cancelled", 0,
                                       ForceArg(a, response))
                   /\ log' = <<>>
                   /\ UNCHANGED store
              ELSE /\ store' = Forced(store, a.n)
                   /\ log' = <<Call("delete_all", a.n, 0), Call("insert", a.n, 0),
                               Call("commit", a.n, 0)>>
                   /\ result' = Result("force-version", "forced", 0,
                                       ForceArg(a, response))
    /\ out' = <<>>
    /\ UNCHANGED <<disk, schema, pc, queue>>
    /\ UNCHANGED <<tvars, textvars, gvars, cvars>>

(***************************************************************************)
(* Tag-based runner (db/manage_migrations.py).  A release tag is written   *)
(* as its position in the release sequence: 2 is '1.0.0', the release      *)
(* cmd_init records, and 1 is the release before it.  A migration file     *)
(* migrate_<a>_to_<b>.sql is the record of its two versions.               *)
(***************************************************************************)
\* highest release a migration file leads to
MaxRelease == 3

\* get_current_version: "return row[0] if row else None"
NO_VERSION == 0
\* cmd_init: "VALUES ('1.0.0', 'Initial schema')"
INITIAL_RELEASE == 2

Migration(a, b) == [from_version |-> a, to_version |-> b]

\* the release-to-release edges a directory may hold
Edges == {Migration(a, a + 1) : a \in 1..(MaxRelease - 1)}

\* a file without the DOWNGRADE marker is a forward-only migration here
TagFileKinds == {GoodFile, BadUpFile, NoDownMarkerFile, NoUpMarkerFile}

TagDisks == UNION {[S -> TagFileKinds] : S \in SUBSET Edges}

\* a directory entry: a name of the migrate_<a>_to_<b>.sql form, or another
\* name (README.md) that re.match rejects
Entry(m) == [matches |-> TRUE, migration |-> m]
OtherEntry == [matches |-> FALSE, migration |-> Migration(0, 0)]

\* os.listdir of the migrations directory: the orders taken are ascending
\* and descending by to_version, with and without a non-matching entry
TagListings(S) ==
    LET asc == [i \in 1..Cardinality(S) |->
                  Entry(CHOOSE m \in S :
                          Cardinality({x \in S : x.to_version <= m.to_version}) = i)]
    IN  {asc, Reverse(asc), <<OtherEntry>> \o asc, Reverse(asc) \o <<OtherEntry>>}

\* the loop over os.listdir keeps the matching names in the order met;
\* the list is returned as built
tag_get_migration_files(listing) ==
    LET matching == SelectSeq(listing, LAMBDA e : e.matches)
    IN  [i \in DOMAIN matching |-> matching[i].migration]

\* applied_at is a TIMESTAMP DEFAULT CURRENT_TIMESTAMP of one-second
\* resolution: a new row is stamped with the second of the latest row or
\* with a later one.  Only the order of the stamps is kept (their rank).
StampsNow(stamps) ==
    IF stamps = <<>> THEN {1} ELSE {SeqMax(stamps), SeqMax(stamps) + 1}

Ranks(stamps) ==
    [i \in DOMAIN stamps |->
       Cardinality({stamps[j] : j \in {k \in DOMAIN stamps : stamps[k] <= stamps[i]}})]

\* the stamps left when the row of version v is deleted
DeleteStamp(rows, stamps, v) ==
    IF v \notin Range(rows) THEN stamps
    ELSE LET i == CHOOSE k \in DOMAIN rows : rows[k] = v
         IN  Ranks(SubSeq(stamps, 1, i - 1) \o SubSeq(stamps, i + 1, Len(stamps)))

\* SELECT version FROM migration_version ORDER BY applied_at DESC LIMIT 1:
\* the values the query may return.  Rows with the same applied_at come in
\* an order the server chooses.
tag_get_current_version(rows, stamps) ==
    IF rows = <<>> THEN {NO_VERSION}
    ELSE {rows[i] : i \in {k \in DOMAIN rows : stamps[k] = SeqMax(stamps)}}

tag_parse_migration_file(f) ==
    IF ~f.upMarker
    THEN [upgrade_sql |-> None, downgrade_sql |-> None]
    ELSE [upgrade_sql |-> Sql(f.up),
          downgrade_sql |-> IF f.downMarker THEN Sql(f.down) ELSE Sql(<<>>)]

tag_apply_migration(rows, sch, m, f, direction) ==
    LET p == tag_parse_migration_file(f)
        sql_to_execute == IF direction = "upgrade" THEN p.upgrade_sql
                          ELSE p.downgrade_sql
    IN  IF Falsy(p.upgrade_sql)
        THEN Rejected(rows, sch)
        ELSE IF Falsy(sql_to_execute)
        THEN Rejected(rows, sch)
        ELSE transaction(rows, sch, m.to_version, direction, sql_to_execute.stmts)

NoMigration == Migration(0, 0)
ApplyArg(kind, m) == [kind |-> kind, migration |-> m]

TagBegin(current) ==
    /\ pc = "idle"
    /\ prev' = [cmd |-> result.cmd, status |-> result.status, exit |-> result.exit,
                store |-> pre.store, current |-> pre.current]
    /\ pre' = [store |-> tstore, schema |-> tschema, current |-> current]

tag_cmd_init ==
    \E current \in tag_get_current_version(tstore, tstamp) :
    /\ TagBegin(current)
    /\ IF current # NO_VERSION
       THEN /\ result' = Result("init", "already_initialized", 0, ApplyArg("none", NoMigration))
            /\ log' = <<>>
            /\ UNCHANGED <<tstore, tstamp>>
       ELSE /\ tstore' = Append(tstore, INITIAL_RELEASE)
            /\ \E s \in StampsNow(tstamp) : tstamp' = Append(tstamp, s)
            /\ log' = <<Call("insert", INITIAL_RELEASE, 0),
                        Call("commit", INITIAL_RELEASE, 0)>>
            /\ result' = Result("init", "initialized", 0, ApplyArg("none", NoMigration))
    /\ out' = <<>>
    /\ UNCHANGED <<tdisk, tschema>>
    /\ UNCHANGED <<disk, store, schema, pc, queue, textvars, gvars, cvars>>

tag_cmd_list ==
    \E current \in tag_get_current_version(tstore, tstamp) :
    /\ TagBegin(current)
    /\ \E listing \in TagListings(DOMAIN tdisk) :
         LET migrations == tag_get_migration_files(listing)
         IN  /\ out' = migrations
             /\ result' = Result("list",
                                 IF migrations = <<>> THEN "none_found" ELSE "listed",
                                 0, ApplyArg("none", NoMigration))
    /\ log' = <<>>
    /\ UNCHANGED tvars
    /\ UNCHANGED <<disk, store, schema, pc, queue, textvars, gvars, cvars>>

\* cmd_apply on a file name of the migrate_<a>_to_<b>.sql form, with or
\* without --downgrade
tag_cmd_apply ==
    \E current \in tag_get_current_version(tstore, tstamp) :
    /\ TagBegin(current)
    /\ \E m \in Edges, direction \in {"upgrade", "downgrade"} :
         IF m \notin DOMAIN tdisk
         THEN \* "Migration file not found"
              /\ result' = Result("apply", "not_found", 0, ApplyArg(direction, m))
              /\ log' = <<>>
              /\ UNCHANGED <<tstore, tschema, tstamp>>
         ELSE LET r == tag_apply_migration(tstore, tschema, m, tdisk[m], direction)
              IN  /\ tstore' = r.store
                  /\ tschema' = r.schema
                  /\ IF r.ok /\ direction = "upgrade"
                     THEN \E s \in StampsNow(tstamp) : tstamp' = Append(tstamp, s)
                     ELSE IF r.ok
                     THEN tstamp' = DeleteStamp(tstore, tstamp, m.to_version)
                     ELSE UNCHANGED tstamp
                  /\ log' = r.calls
                  /\ result' = IF r.ok
                               THEN Result("apply",
                                           IF direction = "upgrade" THEN "migrated"
                                           ELSE "rolled_back",
                                           0, ApplyArg(direction, m))
                               ELSE Result("apply", "failed", 1, ApplyArg(direction, m))
    /\ out' = <<>>
    /\ UNCHANGED tdisk
    /\ UNCHANGED <<disk, store, schema, pc, queue, textvars, gvars, cvars>>

(***************************************************************************)
(* split_sql_statements of the tag-based runner.  A text is the sequence   *)
(* of its characters.                                                      *)
(***************************************************************************)
\* longest text of the exhaustively enumerated ones
MaxLen == 5

Chars == {"'", "\"", ";", "-", "\n", " ", "a"}
Whitespace == {" ", "\n"}

\* a literal of three lines whose middle line starts with two dashes
MultiLineLiteral == <<"'", "\n", "-", "-", "'", "\n", "'", ";", "'">>

Texts == UNION {[1..n -> Chars] : n \in 0..MaxLen} \cup {MultiLineLiteral}

\* str.splitlines: the pieces between line ends, no empty piece after a
\* final line end
RECURSIVE splitlines(_)
splitlines(t) ==
    IF t = <<>> THEN <<>>
    ELSE IF \E k \in DOMAIN t : t[k] = "\n"
    THEN LET k == CHOOSE k \in DOMAIN t :
                     t[k] = "\n" /\ \A j \in 1..(k - 1) : t[j] # "\n"
         IN  <<SubSeq(t, 1, k - 1)>> \o splitlines(SubSeq(t, k + 1, Len(t)))
    ELSE <<t>>

RECURSIVE lstrip(_)
lstrip(t) ==
    IF t # <<>> /\ t[1] \in Whitespace THEN lstrip(Tail(t)) ELSE t

RECURSIVE rstrip(_)
rstrip(t) ==
    IF t # <<>> /\ t[Len(t)] \in Whitespace
    THEN rstrip(SubSeq(t, 1, Len(t) - 1)) ELSE t

strip(t) == rstrip(lstrip(t))

startswith(t, prefix) ==
    Len(t) >= Len(prefix) /\ SubSeq(t, 1, Len(prefix)) = prefix

\* '\n'.join(lines)
RECURSIVE join(_)
join(lines) ==
    IF lines = <<>> THEN <<>>
    ELSE IF Len(lines) = 1 THEN lines[1]
    ELSE lines[1] \o <<"\n">> \o join(Tail(lines))

\* step 1: the lines that do not begin with a comment, joined again
cleaned(sql) ==
    join(SelectSeq(splitlines(sql),
                   LAMBDA line : ~startswith(lstrip(line), <<"-", "-">>)))

\* mutant: a blank segment is emitted as an empty statement
flush_keeping_blank(stmts, buf) == Append(stmts, strip(buf))

\* "stmt = ''.join(buf).strip(); if stmt: statements.append(stmt)"
flush(stmts, buf) ==
    IF strip(buf) # <<>> THEN Append(stmts, strip(buf)) ELSE stmts

\* mutant: of a doubled quote only one character is kept
RECURSIVE scan_dropping_escape(_, _, _, _, _, _)
scan_dropping_escape(c, i, buf, in_single_quote, in_double_quote, stmts) ==
    IF i > Len(c) THEN flush(stmts, buf)
    ELSE LET ch == c[i] IN
         IF ch = "'" /\ ~in_double_quote
         THEN IF in_single_quote /\ i + 1 <= Len(c) /\ c[i + 1] = "'"
              THEN scan_dropping_escape(c, i + 2, buf \o <<"'">>,
                                        in_single_quote, in_double_quote, stmts)
              ELSE scan_dropping_escape(c, i + 1, Append(buf, ch),
                                        ~in_single_quote, in_double_quote, stmts)
         ELSE IF ch = "\"" /\ ~in_single_quote
         THEN IF in_double_quote /\ i + 1 <= Len(c) /\ c[i + 1] = "\""
              THEN scan_dropping_escape(c, i + 2, buf \o <<"\"">>,
                                        in_single_quote, in_double_quote, stmts)
              ELSE scan_dropping_escape(c, i + 1, Append(buf, ch),
                                        in_single_quote, ~in_double_quote, stmts)
         ELSE IF ch = ";" /\ ~in_single_quote /\ ~in_double_quote
         THEN scan_dropping_escape(c, i + 1, <<>>, in_single_quote,
                                   in_double_quote, flush(stmts, buf))
         ELSE scan_dropping_escape(c, i + 1, Append(buf, ch),
                                   in_single_quote, in_double_quote, stmts)

\* step 2: the while loop, from position i (counted from 1) on
RECURSIVE scan(_, _, _, _, _, _)
scan(c, i, buf, in_single_quote, in_double_quote, stmts) ==
    IF i > Len(c) THEN flush(stmts, buf)
    ELSE LET ch == c[i] IN
         IF ch = "'" /\ ~in_double_quote
         THEN IF in_single_quote /\ i + 1 <= Len(c) /\ c[i + 1] = "'"
              THEN scan(c, i + 2, buf \o <<"'", "'">>,
                        in_single_quote, in_double_quote, stmts)
              ELSE scan(c, i + 1, Append(buf, ch),
                        ~in_single_quote, in_double_quote, stmts)
         ELSE IF ch = "\"" /\ ~in_single_quote
         THEN IF in_double_quote /\ i + 1 <= Len(c) /\ c[i + 1] = "\""
              THEN scan(c, i + 2, buf \o <<"\"", "\"">>,
                        in_single_quote, in_double_quote, stmts)
              ELSE scan(c, i + 1, Append(buf, ch),
                        in_single_quote, ~in_double_quote, stmts)
         ELSE IF ch = ";" /\ ~in_single_quote /\ ~in_double_quote
         THEN scan(c, i + 1, <<>>, in_single_quote, in_double_quote,
                   flush(stmts, buf))
         ELSE scan(c, i + 1, Append(buf, ch),
                   in_single_quote, in_double_quote, stmts)

split_sql_statements(sql) == scan(cleaned(sql), 1, <<>>, FALSE, FALSE, <<>>)

\* apply_migration: "statements = split_sql_statements(sql_to_execute)"
split ==
    /\ pc = "idle"
    /\ statements' = split_sql_statements(sql_text)
    /\ pc' = "split"
    /\ UNCHANGED <<disk, store, schema, queue, result, log, pre, prev, out>>
    /\ UNCHANGED <<tvars, sql_text, gvars, cvars>>

\* backend apply_migration:
\* "[s.strip() for s in sql_to_execute.split(';') if s.strip()]"
split_on_semicolons(t) ==
    LET bs == Ascending({i \in DOMAIN t : t[i] = ";"} \cup {0, Len(t) + 1})
        piece(j) == strip(SubSeq(t, bs[j] + 1, bs[j + 1] - 1))
    IN  SelectSeq([j \in 1..(Len(bs) - 1) |-> piece(j)], LAMBDA x : x # <<>>)

\* the statements the integer runner executes for the body sql_text
backend_split ==
    /\ pc = "idle"
    /\ statements' = split_on_semicolons(sql_text)
    /\ pc' = "backend_split"
    /\ UNCHANGED <<disk, store, schema, queue, result, log, pre, prev, out>>
    /\ UNCHANGED <<tvars, sql_text, gvars, cvars>>

(***************************************************************************)
(* Migration generator (db/generate_migration.py).  A line of a statement  *)
(* list, and the file text, are sequences of characters as above, with     *)
(* every run of other characters (a table name, a column list, the words   *)
(* of a comment, a marker) written as one element.                         *)
(***************************************************************************)
\* most tables a db.sql snapshot holds
MaxTables == 2
\* number of table names in use
MaxNames == 3

NameList == <<"A", "B", "C", "D", "E">>
TableNames == {NameList[i] : i \in 1..MaxNames}
\* column lists; the second holds a semicolon inside a literal
Definitions == {<<"(id INT)">>, <<"(sep TEXT DEFAULT ", "'", ";", "'", ")">>}

\* an entry of the dict extract_table_definitions returns
TableEntry(name, definition) ==
    [name |-> name, definition |-> definition,
     full_statement |-> <<"CREATE TABLE ", name, " ">> \o definition \o <<";">>]

\* the dicts of a snapshot, as the sequence of their entries in the order
\* the CREATE TABLE blocks stand in db.sql
Snapshots ==
    {t \in UNION {[1..n -> {TableEntry(a, d) : a \in TableNames, d \in Definitions}] :
                    n \in 0..MaxTables} :
        \A i, j \in DOMAIN t : t[i].name = t[j].name => i = j}

Has(tables, name) == \E i \in DOMAIN tables : tables[i].name = name
Get(tables, name) == tables[CHOOSE i \in DOMAIN tables : tables[i].name = name]

CommentLine(words) == <<"-", "-", " ">> \o words
DropStatement(name) == <<"DROP TABLE IF EXISTS ", name, ";">>
BlankLine == <<>>

\* mutant: a list built by appending only
InsertAppending(l, i, x) == Append(l, x)

\* list.insert(i, x), i counted from 0
Insert(l, i, x) ==
    IF i >= Len(l) THEN Append(l, x)
    ELSE SubSeq(l, 1, i) \o <<x>> \o SubSeq(l, i + 1, Len(l))

Lists(up, down) == [upgrade |-> up, downgrade |-> down]

\* "for table_name in to_tables: if table_name not in from_tables"
RECURSIVE new_tables(_, _, _, _)
new_tables(from, to, i, l) ==
    IF i > Len(to) THEN l
    ELSE IF Has(from, to[i].name) THEN new_tables(from, to, i + 1, l)
    ELSE new_tables(from, to, i + 1,
           Lists(l.upgrade \o <<CommentLine(<<"Create new table: ", to[i].name>>),
                                to[i].full_statement,
                                BlankLine>>,
                 Insert(Insert(Insert(l.downgrade,
                                      0, CommentLine(<<"Drop table: ", to[i].name>>)),
                               1, DropStatement(to[i].name)),
                        2, BlankLine)))

\* "for table_name in from_tables: if table_name not in to_tables"
RECURSIVE dropped_tables(_, _, _, _)
dropped_tables(from, to, i, l) ==
    IF i > Len(from) THEN l
    ELSE IF Has(to, from[i].name) THEN dropped_tables(from, to, i + 1, l)
    ELSE dropped_tables(from, to, i + 1,
           Lists(l.upgrade \o <<CommentLine(<<"Drop table: ", from[i].name>>),
                                DropStatement(from[i].name),
                                BlankLine>>,
                 Insert(Insert(Insert(l.downgrade,
                                      0, CommentLine(<<"Recreate table: ", from[i].name>>)),
                               1, from[i].full_statement),
                        2, BlankLine)))

\* "for table_name in to_tables: if table_name in from_tables" with a
\* different definition
RECURSIVE modified_tables(_, _, _, _)
modified_tables(from, to, i, l) ==
    IF i > Len(to) THEN l
    ELSE IF Has(from, to[i].name)
            /\ Get(from, to[i].name).definition # to[i].definition
    THEN modified_tables(from, to, i + 1,
           Lists(l.upgrade \o <<CommentLine(<<"TODO: Review changes to ", to[i].name>>),
                                CommentLine(<<"Compare definitions manually and add ALTER TABLE statements">>),
                                BlankLine>>,
                 l.downgrade))
    ELSE modified_tables(from, to, i + 1, l)

generate_diff(from, to) ==
    modified_tables(from, to, 1,
        dropped_tables(from, to, 1,
            new_tables(from, to, 1, Lists(<<>>, <<>>))))

UPGRADE_MARKER == "-- ==== UPGRADE ===="
DOWNGRADE_MARKER == "-- ==== DOWNGRADE ===="

\* the text before the upgrade statements
FileHeader ==
    CommentLine(<<"Migration from {from_tag} to {to_tag}">>) \o <<"\n">> \o
    CommentLine(<<"Generated: {now}">>) \o <<"\n">> \o
    CommentLine(<<>>) \o <<"\n">> \o
    CommentLine(<<"This migration was automatically generated by comparing db.sql between tags.">>) \o <<"\n">> \o
    CommentLine(<<"Please review and test before applying to production.">>) \o <<"\n">> \o
    <<"\n", UPGRADE_MARKER, "\n">> \o
    CommentLine(<<"Upgrade from {from_tag} to {to_tag}">>) \o <<"\n", "\n">>

\* the text between the upgrade and the downgrade statements
FileMiddle ==
    <<"\n", "\n", DOWNGRADE_MARKER, "\n">> \o
    CommentLine(<<"Downgrade from {to_tag} to {from_tag}">>) \o <<"\n", "\n">>

NoChangesLine == CommentLine(<<"No changes detected">>) \o <<"\n">>

\* mutant: the file is written without the downgrade marker line
file_content_without_downgrade_marker(up, down) ==
    FileHeader \o (IF up # <<>> THEN join(up) ELSE NoChangesLine)
               \o <<"\n", "\n">>
               \o (IF down # <<>> THEN join(down) ELSE NoChangesLine)

\* "content = ...; content += ..."
file_content(up, down) ==
    FileHeader \o (IF up # <<>> THEN join(up) ELSE NoChangesLine)
               \o FileMiddle
               \o (IF down # <<>> THEN join(down) ELSE NoChangesLine)

generate_migration_file ==
    /\ pc = "idle"
    /\ IF from_tables = to_tables
       THEN \* "No database schema changes detected between tags"
            /\ pc' = "no_file"
            /\ UNCHANGED <<upgrade_statements, downgrade_statements, content>>
       ELSE LET l == generate_diff(from_tables, to_tables) IN
            /\ upgrade_statements' = l.upgrade
            /\ downgrade_statements' = l.downgrade
            /\ IF l.upgrade = <<>> /\ l.downgrade = <<>>
               THEN \* "No significant schema changes detected"
                    /\ pc' = "no_file"
                    /\ UNCHANGED content
               ELSE /\ content' = file_content(l.upgrade, l.downgrade)
                    /\ pc' = "generated"
    /\ UNCHANGED <<disk, store, schema, queue, result, log, pre, prev, out>>
    /\ UNCHANGED <<tvars, textvars, cvars, from_tables, to_tables>>

(***************************************************************************)
(* The two parse_migration_file functions on the text of a file            *)
(***************************************************************************)
\* content.split(marker), the marker being one element of the text
str_split(t, marker) ==
    LET bs == Ascending({i \in DOMAIN t : t[i] = marker} \cup {0, Len(t) + 1})
    IN  [k \in 1..(Len(bs) - 1) |-> SubSeq(t, bs[k] + 1, bs[k + 1] - 1)]

NoText == [none |-> TRUE, text |-> <<>>]
Text(t) == [none |-> FALSE, text |-> t]
\* Python's "not x" for x a string or None
FalsyText(x) == x.none \/ x.text = <<>>

\* backend/manage_migrations.py
parse_migration_content(c) ==
    IF UPGRADE_MARKER \notin Range(c) \/ DOWNGRADE_MARKER \notin Range(c)
    THEN [upgrade_sql |-> NoText, downgrade_sql |-> NoText]
    ELSE LET parts == str_split(c, UPGRADE_MARKER) IN
         IF Len(parts) < 2
         THEN [upgrade_sql |-> NoText, downgrade_sql |-> NoText]
         ELSE LET upgrade_and_rest == str_split(parts[2], DOWNGRADE_MARKER) IN
              IF Len(upgrade_and_rest) < 2
              THEN [upgrade_sql |-> NoText, downgrade_sql |-> NoText]
              ELSE [upgrade_sql |-> Text(strip(upgrade_and_rest[1])),
                    downgrade_sql |-> Text(strip(upgrade_and_rest[2]))]

\* db/manage_migrations.py
tag_parse_migration_content(c) ==
    IF UPGRADE_MARKER \notin Range(c)
    THEN [upgrade_sql |-> NoText, downgrade_sql |-> NoText]
    ELSE LET parts == str_split(c, UPGRADE_MARKER) IN
         IF Len(parts) < 2
         THEN [upgrade_sql |-> NoText, downgrade_sql |-> NoText]
         ELSE LET upgrade_and_rest == str_split(parts[2], DOWNGRADE_MARKER) IN
              [upgrade_sql |-> Text(strip(upgrade_and_rest[1])),
               downgrade_sql |-> IF Len(upgrade_and_rest) > 1
                                 THEN Text(strip(upgrade_and_rest[2]))
                                 ELSE Text(<<>>)]

(***************************************************************************)
(* Two upgrade runs of the integer runner against one store.  store and    *)
(* schema hold what is committed; each run keeps, for the transaction of   *)
(* the change-set it is applying, the statements executed and not yet      *)
(* committed (txn) and whether its tracking INSERT is pending (inserted).  *)
(* committed_by records <<run, version, statement>> for every statement    *)
(* effect a run has made durable.                                          *)
(***************************************************************************)
Runs == {"first", "second"}

Run(p, q, j, txn, inserted, status) ==
    [pc |-> p, queue |-> q, j |-> j, txn |-> txn, inserted |-> inserted,
     status |-> status]

NotStarted == Run("start", <<>>, 0, {}, FALSE, "none")

\* the statement effects a run makes durable for version v
Durable(r, v, js) == {<<r, v, j>> : j \in js}

\* the run leaves the loop: sys.exit(1) after a failed apply_migration
Halt(r, status) == Run("exit", runs[r].queue, runs[r].j, {}, FALSE, status)

\* cmd_upgrade up to the loop, in run r
run_cmd_upgrade(r) ==
    /\ runs[r].pc = "start"
    /\ \E listing \in Listings(DOMAIN disk) :
         LET current == get_current_version(store)
             pending == Pending(get_migration_files(listing), current)
         IN  runs' = [runs EXCEPT ![r] =
                        IF pending = <<>>
                        THEN Run("exit", <<>>, 0, {}, FALSE, "up_to_date")
                        ELSE Run("apply", pending, 1, {}, FALSE, "running")]
    /\ UNCHANGED <<store, schema, committed_by>>
    /\ UNCHANGED <<disk, pc, queue, result, log, pre, prev, out>>
    /\ UNCHANGED <<tvars, textvars, gvars>>

\* apply_migration in run r: the next conn.execute(text(statement))
run_execute(r) ==
    /\ runs[r].pc = "apply"
    /\ LET v == Head(runs[r].queue)
           p == parse_migration_file(disk[v])
           stmts == p.upgrade_sql.stmts
           j == runs[r].j
       IN  IF InvalidFile(p)
           THEN /\ runs' = [runs EXCEPT ![r] = Halt(r, "failed")]
                /\ UNCHANGED <<schema, committed_by>>
           ELSE /\ j <= Len(stmts)
                /\ IF stmts[j] = "BAD"
                   THEN \* the statement raises; the connection closes without commit
                        /\ runs' = [runs EXCEPT ![r] = Halt(r, "failed")]
                        /\ UNCHANGED <<schema, committed_by>>
                   ELSE IF stmts[j] = "DML"
                   THEN /\ runs' = [runs EXCEPT ![r].txn = @ \cup {j}, ![r].j = j + 1]
                        /\ UNCHANGED <<schema, committed_by>>
                   ELSE \* DDL: the server commits the open transaction first;
                        \* a definition that is already there is either
                        \* accepted (IF NOT EXISTS) or raises
                        /\ \E raises \in (IF <<v, j>> \in schema THEN BOOLEAN ELSE {FALSE}) :
                             LET done == runs[r].txn \cup (IF raises THEN {} ELSE {j}) IN
                             /\ schema' = schema \cup {<<v, i>> : i \in done}
                             /\ committed_by' = committed_by \cup Durable(r, v, done)
                             /\ runs' = [runs EXCEPT ![r] =
                                           IF raises THEN Halt(r, "failed")
                                           ELSE Run("apply", runs[r].queue, j + 1, {},
                                                    FALSE, "running")]
    /\ UNCHANGED store
    /\ UNCHANGED <<disk, pc, queue, result, log, pre, prev, out>>
    /\ UNCHANGED <<tvars, textvars, gvars>>

\* the tracking INSERT of run r; it waits while another run holds an
\* uncommitted row for the same version
run_insert(r) ==
    /\ runs[r].pc = "apply"
    /\ LET v == Head(runs[r].queue)
           p == parse_migration_file(disk[v])
       IN  /\ ~InvalidFile(p)
           /\ runs[r].j > Len(p.upgrade_sql.stmts)
           /\ \A o \in Runs \ {r} :
                ~(runs[o].inserted /\ Head(runs[o].queue) = v)
           /\ runs' = [runs EXCEPT ![r] =
                         IF v \in Range(store)
                         THEN \* duplicate primary key: the except branch
                              Halt(r, "collided")
                         ELSE Run("commit", runs[r].queue, runs[r].j, runs[r].txn,
                                  TRUE, "running")]
    /\ UNCHANGED <<store, schema, committed_by>>
    /\ UNCHANGED <<disk, pc, queue, result, log, pre, prev, out>>
    /\ UNCHANGED <<tvars, textvars, gvars>>

\* conn.commit() of run r, then the next iteration of the loop
run_commit(r) ==
    /\ runs[r].pc = "commit"
    /\ LET v == Head(runs[r].queue) IN
       /\ store' = Append(store, v)
       /\ schema' = schema \cup {<<v, i>> : i \in runs[r].txn}
       /\ committed_by' = committed_by \cup Durable(r, v, runs[r].txn)
       /\ runs' = [runs EXCEPT ![r] =
                     IF Tail(runs[r].queue) = <<>>
                     THEN Run("exit", <<>>, 0, {}, FALSE, "applied")
                     ELSE Run("apply", Tail(runs[r].queue), 1, {}, FALSE, "running")]
    /\ UNCHANGED <<disk, pc, queue, result, log, pre, prev, out>>
    /\ UNCHANGED <<tvars, textvars, gvars>>

(***************************************************************************)
(* The migrations directory between two commands: a change-set file is     *)
(* added under a version that has none and lies below the current version. *)
(* The report of the command before was about the old directory, so no     *)
(* report stands after the step.                                           *)
(***************************************************************************)
add_file ==
    /\ pc = "idle"
    /\ \E v \in Versions \ DOMAIN disk :
         /\ v < get_current_version(store)
         /\ disk' = [w \in DOMAIN disk \cup {v} |->
                       IF w = v THEN GoodFile ELSE disk[w]]
    /\ result' = Result("none", "none", 0, NoArg)
    /\ UNCHANGED <<store, schema, pc, queue, log, pre, prev, out>>
    /\ UNCHANGED <<tvars, textvars, gvars, cvars>>

(***************************************************************************)
(* Specifications                                                          *)
(***************************************************************************)
NoResult == Result("none", "none", 0, NoArg)

InitTagIdle ==
    /\ tdisk = <<>>
    /\ tstore = <<>>
    /\ tschema = {}
    /\ tstamp = <<>>

InitTextIdle ==
    /\ sql_text = <<>>
    /\ statements = <<>>

InitGenIdle ==
    /\ from_tables = <<>>
    /\ to_tables = <<>>
    /\ upgrade_statements = <<>>
    /\ downgrade_statements = <<>>
    /\ content = <<>>

InitConcIdle ==
    /\ runs = <<>>
    /\ committed_by = {}

Init ==
    /\ disk \in Disks
    /\ store = <<>>
    /\ schema = {}
    /\ pc = "idle"
    /\ queue = <<>>
    /\ result = NoResult
    /\ log = <<>>
    /\ pre = [store |-> <<>>, schema |-> {}, current |-> UNVERSIONED]
    /\ prev = [cmd |-> "none", status |-> "none", exit |-> 0,
               store |-> <<>>, current |-> UNVERSIONED]
    /\ out = <<>>
    /\ InitTagIdle
    /\ InitTextIdle
    /\ InitGenIdle
    /\ InitConcIdle

\* init, check, upgrade and downgrade of the integer runner
Next ==
    \/ cmd_init
    \/ cmd_check
    \/ cmd_upgrade
    \/ upgrade_step
    \/ cmd_downgrade
    \/ downgrade_step

Spec == Init /\ [][Next]_vars

\* upgrade and downgrade runs only
NextUD ==
    \/ cmd_upgrade
    \/ upgrade_step
    \/ cmd_downgrade
    \/ downgrade_step

SpecUD == Init /\ [][NextUD]_vars

\* the same runs, the loop of an upgrade run going on as long as it can:
\* the process is scheduled and every statement returns
SpecLive == Init /\ [][NextUD]_vars /\ WF_vars(upgrade_step)

\* every command of the integer runner, force-version included, on
\* directories of well-formed change-sets
ForceDisks == {[v \in 1..n |-> GoodFile] : n \in 0..MaxVersion}

InitForce ==
    /\ disk \in ForceDisks
    /\ store = <<>>
    /\ schema = {}
    /\ pc = "idle"
    /\ queue = <<>>
    /\ result = NoResult
    /\ log = <<>>
    /\ pre = [store |-> <<>>, schema |-> {}, current |-> UNVERSIONED]
    /\ prev = [cmd |-> "none", status |-> "none", exit |-> 0,
               store |-> <<>>, current |-> UNVERSIONED]
    /\ out = <<>>
    /\ InitTagIdle
    /\ InitTextIdle
    /\ InitGenIdle
    /\ InitConcIdle

NextForce ==
    \/ Next
    \/ cmd_force_version

SpecForce == InitForce /\ [][NextForce]_vars

\* the tag-based runner on its own
InitTag ==
    /\ tdisk \in TagDisks
    /\ tstore = <<>>
    /\ tschema = {}
    /\ tstamp = <<>>
    /\ out = <<>>
    /\ InitTextIdle
    /\ InitGenIdle
    /\ InitConcIdle
    /\ disk = <<>>
    /\ store = <<>>
    /\ schema = {}
    /\ pc = "idle"
    /\ queue = <<>>
    /\ result = Result("none", "none", 0, ApplyArg("none", NoMigration))
    /\ log = <<>>
    /\ pre = [store |-> <<>>, schema |-> {}, current |-> NO_VERSION]
    /\ prev = [cmd |-> "none", status |-> "none", exit |-> 0,
               store |-> <<>>, current |-> NO_VERSION]

NextTag ==
    \/ tag_cmd_init
    \/ tag_cmd_list
    \/ tag_cmd_apply

SpecTag == InitTag /\ [][NextTag]_vars

\* split_sql_statements on its own, on every text of the bounded set
InitText ==
    /\ sql_text \in Texts
    /\ statements = <<>>
    /\ disk = <<>>
    /\ store = <<>>
    /\ schema = {}
    /\ pc = "idle"
    /\ queue = <<>>
    /\ result = NoResult
    /\ log = <<>>
    /\ pre = [store |-> <<>>, schema |-> {}, current |-> UNVERSIONED]
    /\ prev = [cmd |-> "none", status |-> "none", exit |-> 0,
               store |-> <<>>, current |-> UNVERSIONED]
    /\ out = <<>>
    /\ InitTagIdle
    /\ InitGenIdle
    /\ InitConcIdle

NextText ==
    \/ split
    \/ backend_split

SpecText == InitText /\ [][NextText]_vars

\* the generator on its own, on every pair of snapshots
InitGen ==
    /\ from_tables \in Snapshots
    /\ to_tables \in Snapshots
    /\ upgrade_statements = <<>>
    /\ downgrade_statements = <<>>
    /\ content = <<>>
    /\ disk = <<>>
    /\ store = <<>>
    /\ schema = {}
    /\ pc = "idle"
    /\ queue = <<>>
    /\ result = NoResult
    /\ log = <<>>
    /\ pre = [store |-> <<>>, schema |-> {}, current |-> UNVERSIONED]
    /\ prev = [cmd |-> "none", status |-> "none", exit |-> 0,
               store |-> <<>>, current |-> UNVERSIONED]
    /\ out = <<>>
    /\ InitTagIdle
    /\ InitTextIdle
    /\ InitConcIdle

NextGen == generate_migration_file

SpecGen == InitGen /\ [][NextGen]_vars

\* files whose upgrade body the concurrent runs execute
ConcFileKinds == {GoodFile, BadUpFile, BadDownFile}
ConcDisks == UNION {[S -> ConcFileKinds] : S \in SUBSET Versions}

\* two upgrade runs started against a store that is empty or initialised
InitConc ==
    /\ disk \in ConcDisks
    /\ store \in {<<>>, <<BASE_VERSION>>}
    /\ schema = {}
    /\ runs = [r \in Runs |-> NotStarted]
    /\ committed_by = {}
    /\ pc = "idle"
    /\ queue = <<>>
    /\ result = NoResult
    /\ log = <<>>
    /\ pre = [store |-> <<>>, schema |-> {}, current |-> UNVERSIONED]
    /\ prev = [cmd |-> "none", status |-> "none", exit |-> 0,
               store |-> <<>>, current |-> UNVERSIONED]
    /\ out = <<>>
    /\ InitTagIdle
    /\ InitTextIdle
    /\ InitGenIdle

NextConc ==
    \/ \E r \in Runs : run_cmd_upgrade(r)
    \/ \E r \in Runs : run_execute(r)
    \/ \E r \in Runs : run_insert(r)
    \/ \E r \in Runs : run_commit(r)

SpecConc == InitConc /\ [][NextConc]_vars

\* every command, on a directory of well-formed files that grows
InitAdd ==
    /\ disk \in ForceDisks
    /\ store = <<>>
    /\ schema = {}
    /\ pc = "idle"
    /\ queue = <<>>
    /\ result = NoResult
    /\ log = <<>>
    /\ pre = [store |-> <<>>, schema |-> {}, current |-> UNVERSIONED]
    /\ prev = [cmd |-> "none", status |-> "none", exit |-> 0,
               store |-> <<>>, current |-> UNVERSIONED]
    /\ out = <<>>
    /\ InitTagIdle
    /\ InitTextIdle
    /\ InitGenIdle
    /\ InitConcIdle

NextAdd ==
    \/ Next
    \/ cmd_force_version
    \/ add_file

SpecAdd == InitAdd /\ [][NextAdd]_vars

(***************************************************************************)
(* Vocabulary of the properties                                            *)
(***************************************************************************)
Recorded == Range(store)

\* every statement of v's upgrade SQL is in effect / none of them is
FullyApplied(v) == \A j \in DOMAIN disk[v].up : <<v, j>> \in schema
NotApplied(v) == \A j \in DOMAIN disk[v].up : <<v, j>> \notin schema

\* both markers, both bodies non-empty
WellFormed(f) == f.upMarker /\ f.downMarker /\ f.up # <<>> /\ f.down # <<>>
NoFailingUpgrade(f) == \A i \in DOMAIN f.up : f.up[i] # "BAD"

IsPrefix(s, t) == Len(s) <= Len(t) /\ SubSeq(t, 1, Len(s)) = s

UpgradeCalls(v) ==
    Executes(v, Len(disk[v].up)) \o <<Call("insert", v, 0), Call("commit", v, 0)>>
DowngradeCalls(v) ==
    Executes(v, Len(disk[v].down)) \o <<Call("delete", v, 0), Call("commit", v, 0)>>

RECURSIVE UpgradeLog(_)
UpgradeLog(vs) ==
    IF vs = <<>> THEN <<>> ELSE UpgradeCalls(Head(vs)) \o UpgradeLog(Tail(vs))

RECURSIVE DowngradeLog(_)
DowngradeLog(vs) ==
    IF vs = <<>> THEN <<>> ELSE DowngradeCalls(Head(vs)) \o DowngradeLog(Tail(vs))

(***************************************************************************)
(* C1  Integer runner: in every state reachable by init, check, upgrade    *)
(* and downgrade, halting runs included, the recorded versions are a       *)
(* prefix of the ascending versions on disk: if v is recorded, every       *)
(* on-disk change-set with a lower version is recorded too.                *)
(***************************************************************************)
StoreIsPrefixOfDisk ==
    \A v \in Recorded : \A w \in DOMAIN disk : w < v => w \in Recorded

\* an upgrade halted on a failing change-set after recording two versions
HaltedAfterTwoRecorded ==
    /\ result.cmd = "upgrade"
    /\ result.status = "failed"
    /\ Len(store) >= 2
    /\ \E w \in DOMAIN disk : w \notin Recorded

(***************************************************************************)
(* C2  Tag-based runner: apply in the upgrade direction executes a         *)
(* migration and records its to_version only when the store's current      *)
(* version equals the migration's from_version; an out-of-order            *)
(* application is rejected with the store unchanged.                       *)
(***************************************************************************)
UpgradeApplied ==
    /\ result.cmd = "apply"
    /\ result.arg.kind = "upgrade"
    /\ result.status # "not_found"

ApplyOnlyFromCurrent ==
    (UpgradeApplied /\ pre.current # result.arg.migration.from_version) =>
        /\ result.status = "failed"
        /\ log = <<>>
        /\ tstore = pre.store
        /\ tschema = pre.schema

(***************************************************************************)
(* C3  In every state reachable through upgrade and downgrade runs, a      *)
(* version has a row in the store if and only if the statements of its     *)
(* upgrade SQL are in effect: the SQL of a change-set and its tracking-row *)
(* write are committed together or not at all.                             *)
(***************************************************************************)
RowIffSqlInEffect ==
    \A v \in DOMAIN disk :
        /\ v \in Recorded => FullyApplied(v)
        /\ v \notin Recorded => NotApplied(v)

(***************************************************************************)
(* C4  If a statement of a pending change-set's upgrade SQL fails, none of *)
(* that change-set's statements remain applied, no row for its version is  *)
(* added, no later change-set is attempted, and the change-sets applied    *)
(* earlier in the run stay applied and recorded.                           *)
(***************************************************************************)
UpgradeStatementFailed ==
    /\ result.cmd = "upgrade"
    /\ result.status = "failed"
    /\ log # <<>>
    /\ log[Len(log)].op = "execute"

FailedUpgradeLeavesNothing ==
    UpgradeStatementFailed =>
        LET f == log[Len(log)].version IN
        /\ NotApplied(f)
        /\ f \notin Recorded
        /\ pc = "idle"
        /\ \A i \in DOMAIN log : log[i].version <= f
        /\ \A i \in DOMAIN log :
              log[i].version # f =>
                  log[i].version \in Recorded /\ FullyApplied(log[i].version)

(***************************************************************************)
(* C5  From an empty store with three well-formed change-sets and no       *)
(* failing statement, upgrade applies them in ascending order, each one's  *)
(* statements and tracking insert committed before the next begins, and    *)
(* ends with exactly their three rows.                                     *)
(***************************************************************************)
ThreeGoodFromEmpty ==
    /\ result.cmd = "upgrade"
    /\ pre.store = <<>>
    /\ Cardinality(DOMAIN disk) = 3
    /\ \A v \in DOMAIN disk : WellFormed(disk[v]) /\ NoFailingUpgrade(disk[v])

UpgradeAppliesInOrder ==
    ThreeGoodFromEmpty =>
        LET all == Ascending(DOMAIN disk)
            done == SubSeq(all, 1, Len(all) - Len(queue))
        IN  /\ result.status \in {"running", "applied"}
            /\ queue = SubSeq(all, Len(done) + 1, Len(all))
            /\ store = done
            /\ log = UpgradeLog(done)
            /\ \A v \in Range(done) : FullyApplied(v)
            /\ pc = "idle" => result.status = "applied" /\ Recorded = DOMAIN disk

ThreeApplied ==
    /\ ThreeGoodFromEmpty
    /\ pc = "idle"
    /\ result.status = "applied"
    /\ Len(store) = 3

(***************************************************************************)
(* C6  An upgrade that immediately follows a successfully completed        *)
(* upgrade finds nothing pending, reports "up to date", executes no SQL    *)
(* and leaves the store unchanged.                                         *)
(***************************************************************************)
SecondUpgrade ==
    /\ result.cmd = "upgrade"
    /\ prev.cmd = "upgrade"
    /\ prev.status \in {"applied", "up_to_date"}

SecondUpgradeIsNoOp ==
    SecondUpgrade =>
        /\ result.status = "up_to_date"
        /\ pc = "idle"
        /\ log = <<>>
        /\ store = pre.store
        /\ schema = pre.schema

SecondUpgradeAfterApplying ==
    /\ SecondUpgrade
    /\ prev.status = "applied"
    /\ Len(store) >= 2

(***************************************************************************)
(* C7  For every store state with current version c and every set of       *)
(* well-formed change-sets, a successful upgrade followed by a downgrade   *)
(* to c leaves the current version at c and the recorded versions as they  *)
(* were before the upgrade.                                                *)
(***************************************************************************)
UpgradeThenDowngradeBack ==
    /\ result.cmd = "downgrade"
    /\ pc = "idle"
    /\ result.status # "failed"
    /\ prev.cmd = "upgrade"
    /\ prev.status \in {"applied", "up_to_date"}
    /\ result.arg = [kind |-> "num", n |-> prev.current]
    /\ \A v \in DOMAIN disk : WellFormed(disk[v])

StoreRestored ==
    /\ get_current_version(store) = prev.current
    /\ Recorded = Range(prev.store)

UpgradedOnlyToBase == prev.current = UNVERSIONED /\ pre.current = BASE_VERSION

DowngradeRan ==
    /\ result.cmd = "downgrade"
    /\ result.status \in {"running", "rolled_back", "failed"}

RollbackTarget ==
    IF result.arg.kind = "num" THEN result.arg.n ELSE pre.current - 1

\* the on-disk versions in (T, C], highest first
RollbackRange ==
    Reverse(Ascending({v \in DOMAIN disk : RollbackTarget < v /\ v <= pre.current}))

TargetNotBelowCurrent ==
    /\ result.cmd = "downgrade"
    /\ result.arg.kind = "num"
    /\ result.arg.n >= pre.current

BadTargetRejected ==
    TargetNotBelowCurrent =>
        /\ result.status \in {"at_base", "target_not_less"}
        /\ pc = "idle"
        /\ log = <<>>
        /\ store = pre.store
        /\ schema = pre.schema

TargetRejectedAboveBase ==
    /\ TargetNotBelowCurrent
    /\ result.status = "target_not_less"
    /\ Len(store) >= 2

(***************************************************************************)
(* C10  When a downgrade run reaches a change-set whose downgrade body is  *)
(* empty, the run fails at that step: none of its SQL is executed, its     *)
(* tracking row is not deleted and no further change-set is processed.     *)
(***************************************************************************)
EmptyDowngradeBody(f) == f.upMarker /\ f.downMarker /\ f.down = <<>>

AtEmptyDowngrade ==
    pc = "downgrade" /\ EmptyDowngradeBody(disk[Head(queue)])

EmptyDowngradeFailsFast ==
    [][AtEmptyDowngrade =>
          /\ store' = store
          /\ schema' = schema
          /\ log' = log
          /\ pc' = "idle"
          /\ queue' = <<>>
          /\ result'.status = "failed"
          /\ result'.exit = 1]_vars

\* a downgrade run that rolled back a change-set and then stopped at a
\* recorded one whose downgrade body is empty
StoppedAtEmptyDowngrade ==
    /\ result.cmd = "downgrade"
    /\ result.status = "failed"
    /\ log # <<>>
    /\ log[Len(log)].op = "commit"
    /\ \E v \in Recorded \cap DOMAIN disk :
          /\ EmptyDowngradeBody(disk[v])
          /\ v = get_current_version(store)
          /\ RollbackTarget < v

(***************************************************************************)
(* C11  A change-set whose DOWNGRADE marker is missing or whose downgrade  *)
(* body is empty is accepted in the upgrade direction: the upgrade run     *)
(* executes its upgrade SQL and records its version.                       *)
(***************************************************************************)
ForwardOnly(f) == f.upMarker /\ f.up # <<>> /\ (~f.downMarker \/ f.down = <<>>)

AtForwardOnlyUpgrade ==
    /\ pc = "upgrade"
    /\ ForwardOnly(disk[Head(queue)])
    /\ NoFailingUpgrade(disk[Head(queue)])

ForwardOnlyUpgradeAccepted ==
    [][AtForwardOnlyUpgrade =>
          /\ store' = Append(store, Head(queue))
          /\ log' = log \o UpgradeCalls(Head(queue))]_vars

\* the same for the tag-based runner: apply of a forward-only migration
\* whose version is not recorded yet
TagForwardOnlyApplyAccepted ==
    (/\ result.cmd = "apply"
     /\ result.arg.kind = "upgrade"
     /\ result.status # "not_found"
     /\ ForwardOnly(tdisk[result.arg.migration])
     /\ result.arg.migration.to_version \notin Range(pre.store))
    => /\ result.status = "migrated"
       /\ tstore = Append(pre.store, result.arg.migration.to_version)

(***************************************************************************)
(* C12  check, run in any state the commands of the integer runner can     *)
(* leave, keeps the rows of the Version Store and the schema as they were  *)
(* and makes no database call that executes or records a change-set.       *)
(***************************************************************************)
CheckChangesNothing ==
    result.cmd = "check" =>
        /\ store = pre.store
        /\ schema = pre.schema
        /\ log = <<>>
        /\ pc = "idle"

\* check reporting pending change-sets on a store that holds a forced row
CheckedForcedStoreWithPending ==
    /\ result.cmd = "check"
    /\ result.status = "pending"
    /\ prev.cmd = "force-version"
    /\ prev.status = "forced"
    /\ store # <<>>

(***************************************************************************)
(* C13  force-version V changes the store only when the operator answers   *)
(* 'yes' to the prompt; it then executes no change-set SQL and leaves      *)
(* exactly the row for V.  With any other answer, or with a malformed      *)
(* version argument, the store is unchanged.                               *)
(***************************************************************************)
ForceVersionRan == result.cmd = "force-version"

ForceVersionEffect ==
    /\ store = <<result.arg.n>>
    /\ schema = pre.schema
    /\ \A i \in DOMAIN log : log[i].op # "execute"

ForceVersionNoEffect ==
    /\ store = pre.store
    /\ schema = pre.schema
    /\ log = <<>>

\* as claimed: the answer is 'yes' itself
ForceOnlyOnYes ==
    ForceVersionRan =>
        IF result.arg.kind = "num" /\ result.arg.answer = "yes"
        THEN ForceVersionEffect
        ELSE ForceVersionNoEffect

\* amended: the answer is 'yes' in any letter case
ForceOnlyOnYesAnyCase ==
    ForceVersionRan =>
        IF result.arg.kind = "num" /\ Lower(result.arg.answer) = "yes"
        THEN ForceVersionEffect
        ELSE ForceVersionNoEffect

\* a store of two rows replaced by the single row of a version it did not hold
ForcedOverTwoRows ==
    /\ ForceVersionRan
    /\ result.status = "forced"
    /\ Len(pre.store) >= 2
    /\ result.arg.n \notin Range(pre.store)
    /\ store = <<result.arg.n>>

(***************************************************************************)
(* C14  Applying a migration whose version is already recorded fails,      *)
(* commits none of its upgrade statements and leaves the store unchanged;  *)
(* the store never holds two rows of one version.                          *)
(***************************************************************************)
\* apply, in the upgrade direction, of a file whose upgrade SQL the server
\* accepts and whose to_version has a row already
DuplicateApply ==
    /\ result.cmd = "apply"
    /\ result.arg.kind = "upgrade"
    /\ result.status # "not_found"
    /\ result.arg.migration.to_version \in Range(pre.store)
    /\ tdisk[result.arg.migration].upMarker
    /\ NoFailingUpgrade(tdisk[result.arg.migration])

OneRowPerVersion ==
    \A i, j \in DOMAIN tstore : tstore[i] = tstore[j] => i = j

DuplicateApplyFails ==
    DuplicateApply =>
        /\ result.status = "failed"
        /\ log # <<>>
        /\ log[Len(log)].op = "insert"
        /\ tstore = pre.store

DuplicateApplyCommitsNothing ==
    DuplicateApply => tschema = pre.schema

DuplicateVersionRejected ==
    /\ DuplicateApplyFails
    /\ DuplicateApplyCommitsNothing
    /\ OneRowPerVersion

(***************************************************************************)
(* C15  Rolling back a change-set whose version has no row in the store    *)
(* fails: the step does not report success and none of the change-set's    *)
(* downgrade SQL is committed.                                             *)
(***************************************************************************)
WorkingDowngrade(f) ==
    /\ f.upMarker /\ f.downMarker
    /\ f.up # <<>> /\ f.down # <<>>
    /\ \A i \in DOMAIN f.down : f.down[i] # "BAD"

\* tag runner: apply --downgrade of a migration that was never applied
RollbackOfUnrecorded ==
    /\ result.cmd = "apply"
    /\ result.arg.kind = "downgrade"
    /\ result.status # "not_found"
    /\ result.arg.migration.to_version \notin Range(pre.store)
    /\ WorkingDowngrade(tdisk[result.arg.migration])

UnrecordedRollbackFails ==
    RollbackOfUnrecorded =>
        /\ result.status = "failed"
        /\ \A i \in DOMAIN log : log[i].op # "commit"

\* integer runner: a step of a downgrade run at a version without a row
IntegerUnrecordedRollbackFails ==
    [][(/\ pc = "downgrade"
        /\ Head(queue) \notin Range(store)
        /\ WorkingDowngrade(disk[Head(queue)]))
       => /\ pc' = "idle"
          /\ result'.status = "failed"
          /\ log' = log]_vars

(***************************************************************************)
(* C16  get_current_version returns the version of the row written most    *)
(* recently, and the unversioned value (0, None) exactly when the store    *)
(* is empty, whatever applications, rollbacks, init and force-version      *)
(* came before.                                                            *)
(***************************************************************************)
LastRow(rows, sentinel) == IF rows = <<>> THEN sentinel ELSE rows[Len(rows)]

CurrentIsMostRecent ==
    get_current_version(store) = LastRow(store, UNVERSIONED)

SentinelIffEmpty ==
    (get_current_version(store) = UNVERSIONED) <=> (store = <<>>)

\* integer runner
CurrentVersionIsLatest == CurrentIsMostRecent /\ SentinelIffEmpty

\* tag runner: the query has one possible answer, the version of the row
\* written last
TagCurrentVersionIsLatest ==
    tag_get_current_version(tstore, tstamp) = {LastRow(tstore, NO_VERSION)}

TagSentinelIffEmpty ==
    (NO_VERSION \in tag_get_current_version(tstore, tstamp)) <=> (tstore = <<>>)

(***************************************************************************)
(* C17  get_migration_files returns the change-sets in ascending order of  *)
(* their ordering key, whatever order the directory listing has, and       *)
(* returns exactly the files whose names match the pattern, in both        *)
(* repositories.                                                           *)
(***************************************************************************)
SortedByToVersion(ms) ==
    \A i, j \in DOMAIN ms : i < j => ms[i].to_version < ms[j].to_version

\* tag repository: what list printed
ListedExactlyMatching ==
    result.cmd = "list" => Range(out) = DOMAIN tdisk /\ Len(out) = Cardinality(DOMAIN tdisk)

ListedAscending ==
    result.cmd = "list" => SortedByToVersion(out)

DiscoverySortedAndExact == ListedAscending /\ ListedExactlyMatching

\* integer repository
IntegerDiscoverySorted ==
    \A listing \in Listings(DOMAIN disk) :
        get_migration_files(listing) = Ascending(DOMAIN disk)

(***************************************************************************)
(* C18  upgrade detects a pending change-set whose file lacks a required   *)
(* marker before it executes the SQL of any change-set of the run, and it  *)
(* never applies a change-set that comes after the malformed one.          *)
(***************************************************************************)
LacksMarker(f) == ~f.upMarker \/ ~f.downMarker

MalformedPending ==
    {v \in DOMAIN disk : v > pre.current /\ LacksMarker(disk[v])}

UpgradeWithMalformedPending ==
    result.cmd = "upgrade" /\ MalformedPending # {}

MalformedDetectedBeforeAnySql ==
    UpgradeWithMalformedPending =>
        \A i \in DOMAIN log : log[i].op # "execute"

NeverSkipsMalformed ==
    UpgradeWithMalformedPending =>
        \A v \in MalformedPending :
            /\ v \notin Range(store)
            /\ \A w \in Range(store) \ Range(pre.store) : w < v

MalformedStopsUpgradeFirst ==
    MalformedDetectedBeforeAnySql /\ NeverSkipsMalformed

(***************************************************************************)
(* Regions of a SQL text, read as SQL is read: a quote opens a literal     *)
(* that the same quote closes (a doubled quote closes and reopens it), two *)
(* dashes outside a literal open a comment that the line end closes.       *)
(***************************************************************************)
RECURSIVE ModeAfter(_, _)
ModeAfter(t, i) ==
    IF i = 0 THEN "code"
    ELSE LET m == ModeAfter(t, i - 1)
             ch == t[i]
         IN  IF m = "code"
             THEN IF ch = "'" THEN "single"
                  ELSE IF ch = "\"" THEN "double"
                  ELSE IF ch = "-" /\ i < Len(t) /\ t[i + 1] = "-" THEN "comment"
                  ELSE "code"
             ELSE IF m = "single" THEN (IF ch = "'" THEN "code" ELSE "single")
             ELSE IF m = "double" THEN (IF ch = "\"" THEN "code" ELSE "double")
             ELSE IF ch = "\n" THEN "code" ELSE "comment"

\* character i is read inside a quoted region
InsideQuotes(t, i) == ModeAfter(t, i - 1) \in {"single", "double"}

(***************************************************************************)
(* C19  For every SQL text whose semicolons all lie inside single-quoted   *)
(* or double-quoted regions, split_sql_statements returns exactly one      *)
(* statement.                                                              *)
(***************************************************************************)
SemicolonsAllQuoted(t) ==
    /\ \E i \in DOMAIN t : t[i] = ";"
    /\ \A i \in DOMAIN t : t[i] = ";" => InsideQuotes(t, i)

QuotedSemicolonsNeverSplit ==
    (pc = "split" /\ SemicolonsAllQuoted(sql_text)) => Len(statements) = 1

(***************************************************************************)
(* C20  In split_sql_statements a doubled quote inside a quoted region of  *)
(* its own kind does not end the region: a semicolon after it in the same  *)
(* region does not split the statement, and both quote characters are in   *)
(* the emitted statement.                                                  *)
(*                                                                         *)
(* The statements are compared with the pieces of the comment-free text    *)
(* between the semicolons that lie outside every quoted region, where a    *)
(* region is opened and closed by its quote character alone.               *)
(***************************************************************************)
RECURSIVE QuoteModeAfter(_, _)
QuoteModeAfter(t, i) ==
    IF i = 0 THEN "code"
    ELSE LET m == QuoteModeAfter(t, i - 1)
             ch == t[i]
         IN  IF m = "code"
             THEN IF ch = "'" THEN "single"
                  ELSE IF ch = "\"" THEN "double"
                  ELSE "code"
             ELSE IF m = "single" THEN (IF ch = "'" THEN "code" ELSE "single")
             ELSE IF ch = "\"" THEN "code" ELSE "double"

\* the semicolons outside every quoted region
Cuts(t) == {i \in DOMAIN t : t[i] = ";" /\ QuoteModeAfter(t, i - 1) = "code"}

\* the non-blank pieces between them, trimmed, in order, every character kept
Pieces(t) ==
    LET bs == Ascending(Cuts(t) \cup {0, Len(t) + 1})
        piece(j) == strip(SubSeq(t, bs[j] + 1, bs[j + 1] - 1))
    IN  SelectSeq([j \in 1..(Len(bs) - 1) |-> piece(j)], LAMBDA x : x # <<>>)

\* position i starts a doubled quote inside a region of the same quote
DoubledQuoteAt(t, i) ==
    /\ i + 1 <= Len(t)
    /\ \/ t[i] = "'" /\ t[i + 1] = "'" /\ QuoteModeAfter(t, i - 1) = "single"
       \/ t[i] = "\"" /\ t[i + 1] = "\"" /\ QuoteModeAfter(t, i - 1) = "double"

HasDoubledQuote(t) == \E i \in DOMAIN t : DoubledQuoteAt(t, i)

DoubledQuoteKeepsRegion ==
    (pc = "split" /\ HasDoubledQuote(cleaned(sql_text)))
    => statements = Pieces(cleaned(sql_text))

\* a doubled quote followed, in its region, by a semicolon: one statement,
\* the whole text
SemicolonAfterDoubledQuote ==
    /\ pc = "split"
    /\ \E i \in DOMAIN sql_text :
          /\ DoubledQuoteAt(sql_text, i)
          /\ i + 2 <= Len(sql_text)
          /\ sql_text[i + 2] = ";"
    /\ cleaned(sql_text) = sql_text
    /\ statements = <<sql_text>>

(***************************************************************************)
(* C21  split_sql_statements returns the statements in source order, each  *)
(* trimmed and non-empty, without the terminating semicolon: every         *)
(* semicolon outside both quoted regions ends a statement, the text after  *)
(* the last such semicolon is the last statement, and a whitespace-only    *)
(* segment gives no statement.  Stated on the text left by step 1.         *)
(***************************************************************************)
Trimmed(t) == t # <<>> /\ t[1] \notin Whitespace /\ t[Len(t)] \notin Whitespace

SplitterContract ==
    pc = "split" =>
        /\ statements = Pieces(cleaned(sql_text))
        /\ \A k \in DOMAIN statements : Trimmed(statements[k])

\* two unquoted semicolons with a blank segment between them and text
\* after the last one: two statements
BlankSegmentAndTrailingText ==
    /\ pc = "split"
    /\ cleaned(sql_text) = sql_text
    /\ Cardinality(Cuts(sql_text)) = 2
    /\ \E i \in Cuts(sql_text) : i + 2 \in Cuts(sql_text) /\ sql_text[i + 1] = " "
    /\ sql_text[Len(sql_text)] = "a"
    /\ Len(statements) = 2

(***************************************************************************)
(* C22  Comment stripping never removes text inside a quoted literal: a    *)
(* line that starts with two dashes while a literal is open is kept, so    *)
(* the emitted statements are those of the text from which only the        *)
(* comment lines outside literals were removed.                            *)
(***************************************************************************)
\* the lines of t, from the line that starts at position pos on, without
\* those that start outside every literal and begin with two dashes
RECURSIVE LinesOutsideComments(_, _, _)
LinesOutsideComments(t, lines, pos) ==
    IF lines = <<>> THEN <<>>
    ELSE LET line == lines[1]
             rest == LinesOutsideComments(t, Tail(lines), pos + Len(line) + 1)
         IN  IF startswith(lstrip(line), <<"-", "-">>) /\ ~InsideQuotes(t, pos)
             THEN rest
             ELSE <<line>> \o rest

WithoutCommentLines(t) == join(LinesOutsideComments(t, splitlines(t), 1))

StrippingSparesLiterals ==
    pc = "split" =>
        /\ cleaned(sql_text) = WithoutCommentLines(sql_text)
        /\ statements = scan(WithoutCommentLines(sql_text), 1, <<>>, FALSE, FALSE, <<>>)

(***************************************************************************)
(* C23  Every statement a runner executes for a change-set body is one of  *)
(* the statements split_sql_statements yields for that body, in that       *)
(* order, in both runners; a semicolon inside a literal never makes a      *)
(* runner execute the two halves of the literal.                           *)
(***************************************************************************)
RECURSIVE IsSubsequence(_, _)
IsSubsequence(s, t) ==
    IF s = <<>> THEN TRUE
    ELSE IF t = <<>> THEN FALSE
    ELSE IF Head(s) = Head(t) THEN IsSubsequence(Tail(s), Tail(t))
    ELSE IsSubsequence(s, Tail(t))

TagRunnerExecutesSplitterStatements ==
    pc = "split" => statements = split_sql_statements(sql_text)

RunnersExecuteSplitterStatements ==
    pc \in {"split", "backend_split"} =>
        IsSubsequence(statements, split_sql_statements(sql_text))


(***************************************************************************)
(* C24: in the downgrade list the generator builds, every drop of a table  *)
(* the new snapshot adds stands before every recreation of a table the     *)
(* new snapshot removes (old {A, B}, new {B, C}: DROP C before CREATE A).  *)
(***************************************************************************)
IsDrop(line) == line # <<>> /\ line[1] = "DROP TABLE IF EXISTS "
IsCreate(line) == line # <<>> /\ line[1] = "CREATE TABLE "

\* the tables a list creates and drops
Created(l) == {l[i][2] : i \in {k \in DOMAIN l : IsCreate(l[k])}}
Dropped(l) == {l[i][2] : i \in {k \in DOMAIN l : IsDrop(l[k])}}
NamesOf(tables) == {tables[i].name : i \in DOMAIN tables}

\* which tables each list creates and drops (this part holds)
DiffCreatesAndDrops ==
    pc = "generated" =>
        /\ Created(upgrade_statements) = NamesOf(to_tables) \ NamesOf(from_tables)
        /\ Dropped(upgrade_statements) = NamesOf(from_tables) \ NamesOf(to_tables)
        /\ Dropped(downgrade_statements) = NamesOf(to_tables) \ NamesOf(from_tables)
        /\ Created(downgrade_statements) = NamesOf(from_tables) \ NamesOf(to_tables)

DowngradeDropsBeforeRecreates ==
    /\ DiffCreatesAndDrops
    /\ pc = "generated" =>
          \A i, j \in DOMAIN downgrade_statements :
              IsDrop(downgrade_statements[i]) /\ IsCreate(downgrade_statements[j])
                  => i < j

\* C24, amended: the downgrade list undoes the upgrade list back to front;
\* every recreation of a removed table stands before every drop of an added
\* table, and the lists create and drop exactly the tables that differ.
DowngradeRecreatesBeforeDrops ==
    /\ DiffCreatesAndDrops
    /\ pc = "generated" =>
          \A i, j \in DOMAIN downgrade_statements :
              IsCreate(downgrade_statements[i]) /\ IsDrop(downgrade_statements[j])
                  => i < j

\* old {A, B}, new {B, C}
RemovedAAddedC ==
    /\ pc = "generated"
    /\ NamesOf(from_tables) = {"A", "B"}
    /\ NamesOf(to_tables) = {"B", "C"}
    /\ Created(downgrade_statements) = {"A"}
    /\ Dropped(downgrade_statements) = {"C"}

(***************************************************************************)
(* C25: both parsers accept the text the generator writes, and the         *)
(* statements the Splitter finds in the upgrade and the downgrade body are *)
(* the non-comment, non-blank lines of generate_diff's two lists, in       *)
(* order; a file whose lists hold no statement still has two bodies that   *)
(* neither parser nor apply_migration rejects.                             *)
(***************************************************************************)
IsStatement(line) == line # <<>> /\ ~startswith(line, <<"-", "-">>)

\* the statements of a list as the server receives them: without the
\* closing semicolon
Executable(l) ==
    LET s == SelectSeq(l, IsStatement)
    IN  [k \in DOMAIN s |-> SubSeq(s[k], 1, Len(s[k]) - 1)]

GeneratedWithoutStatements ==
    /\ pc = "generated"
    /\ upgrade_statements # <<>>
    /\ downgrade_statements = <<>>
    /\ Executable(upgrade_statements) = <<>>

FailureStatuses == {"failed", "invalid_target", "target_not_less", "invalid_format"}

\* the part that holds: a failed step exits with status 1
FailedStepExitsNonZero == result.status = "failed" => result.exit # 0

FailurePathsExitNonZero == result.status \in FailureStatuses => result.exit # 0

(***************************************************************************)
(* C27: with two upgrade runs against one store, no version is recorded    *)
(* twice and no change-set has upgrade statements made durable by both     *)
(* runs; a run whose tracking INSERT collides leaves nothing of that       *)
(* change-set behind.                                                      *)
(***************************************************************************)
\* the part the primary key guarantees
NoVersionRecordedTwice ==
    \A i, k \in DOMAIN store : store[i] = store[k] => i = k

CommittedBy(r) == {<<e[2], e[3]>> : e \in {x \in committed_by : x[1] = r}}
VersionsCommittedBy(r) == {e[1] : e \in CommittedBy(r)}

NoChangeSetCommittedTwice ==
    /\ NoVersionRecordedTwice
    /\ \A r, o \in Runs :
         r # o => VersionsCommittedBy(r) \cap VersionsCommittedBy(o) = {}
    /\ \A r \in Runs :
         runs[r].status = "collided" =>
             Head(runs[r].queue) \notin VersionsCommittedBy(r)

\* the same for change-sets without DDL
DmlOnly == \A v \in DOMAIN disk : "DDL" \notin Range(disk[v].up)
NoDmlChangeSetCommittedTwice == DmlOnly => NoChangeSetCommittedTwice

\* both runs worked on one change-set and one of them collided
CollidedOnInsert ==
    /\ DmlOnly
    /\ \E r \in Runs : runs[r].status = "collided"

(***************************************************************************)
(* C28: whenever check or upgrade reports that the database is up to date, *)
(* every change-set file on disk has a row in the store, also after        *)
(* force-version and when a file below the current version is added.       *)
(***************************************************************************)
ReportsUpToDate ==
    result.cmd \in {"check", "upgrade"} /\ result.status = "up_to_date"

UpToDateMeansAllRecorded ==
    ReportsUpToDate => DOMAIN disk \subseteq Range(store)

\* C28, amended: "up to date" says that no file on disk has a version above
\* the current version, and check lists change-sets as pending exactly when
\* there is such a file; files below the current version are not looked at.
UpToDateMeansNoneAbove ==
    /\ ReportsUpToDate =>
          \A v \in DOMAIN disk : v <= get_current_version(store)
    /\ result.cmd = "check" /\ result.status = "pending" =>
          \E v \in DOMAIN disk : v > get_current_version(store)

\* up to date after force-version and the addition of a file below the
\* current version (the directory is no longer a run 1..n of versions)
UpToDateWithUnrecordedFile ==
    /\ ReportsUpToDate
    /\ DOMAIN disk # 1..Cardinality(DOMAIN disk)
    /\ \E v \in DOMAIN disk :
         v < get_current_version(store) /\ v \notin Range(store)

(***************************************************************************)
(* C29: downgrade never removes the base version: if the version-1 row is  *)
(* in the store when a downgrade starts, with any --target or none, it is  *)
(* there when the downgrade ends, and the current version is at least 1.   *)
(***************************************************************************)
DowngradeEnded == result.cmd = "downgrade" /\ pc = "idle"

\* the part that holds: without --target the base row stays
BaseSurvivesOneStepDowngrade ==
    DowngradeEnded /\ result.arg = NoArg /\ BASE_VERSION \in Range(pre.store)
        => BASE_VERSION \in Range(store)

BaseSurvivesDowngrade ==
    DowngradeEnded /\ BASE_VERSION \in Range(pre.store)
        => /\ BASE_VERSION \in Range(store)
           /\ get_current_version(store) >= BASE_VERSION

(***************************************************************************)
(* C30: every upgrade run terminates, attempting each pending change-set   *)
(* at most once; if every pending file is well-formed and no statement     *)
(* fails it ends with an empty pending set and the current version equal   *)
(* to the highest version on disk; the current version never decreases     *)
(* during the run.                                                         *)
(***************************************************************************)
\* the change-sets that were pending when the run started
PendingAtStart == {v \in DOMAIN disk : v > pre.current}

WellFormedAndClean(v) ==
    /\ ~InvalidFile(parse_migration_file(disk[v]))
    /\ "BAD" \notin Range(disk[v].up)

\* one iteration of the loop: the change-set at the head is not tried again,
\* and the current version does not go down
UpgradeLoopStep ==
    pc = "upgrade" =>
        /\ pc' = "upgrade" => queue' = Tail(queue)
        /\ \A i \in DOMAIN queue' : queue'[i] > Head(queue)
        /\ get_current_version(store') >= get_current_version(store)

\* the end of a run whose change-sets are all well-formed and succeed
UpgradeLoopEnd ==
    pc = "upgrade" /\ pc' = "idle" /\ (\A v \in PendingAtStart : WellFormedAndClean(v))
        => /\ result'.status = "applied"
           /\ Pending(get_migration_files(Ascending(DOMAIN disk)),
                      get_current_version(store')) = <<>>
           /\ get_current_version(store') = SeqMax(Ascending(DOMAIN disk))

UpgradeRunTerminates ==
    /\ (pc = "upgrade") ~> (pc = "idle")
    /\ [][UpgradeLoopStep /\ UpgradeLoopEnd]_vars

\* a run of three change-sets has applied them all
UpgradedThreeChangeSets ==
    /\ pc = "idle"
    /\ result.cmd = "upgrade"
    /\ result.status = "applied"
    /\ pre.current = UNVERSIONED
    /\ Len(store) >= 3

====
